---- MODULE Spec2Model ----
(***************************************************************************)
(* Model of tiagods/go-extras. The stream package: the bounded-           *)
(* concurrency ParallelStream call (dispatcher goroutine, one worker       *)
(* goroutine per element, semaphore channel, WaitGroup, buffered result    *)
(* channel), the sequential stage operations over slices that live in a    *)
(* heap of backing arrays, and the terminal operations. The optional       *)
(* package: Optional and its accessors. The enum package: EnumSet.         *)
(***************************************************************************)
EXTENDS Integers, Sequences, FiniteSets, Bags, TLC

(* ------------------------------ bounds --------------------------------- *)
\* longest input slice handed to ParallelStream
MaxLen == 3
\* largest concurrency budget a caller passes (the smallest is MinBudget)
MaxBudget == 2
\* largest value runtime.GOMAXPROCS(0) reports
MaxProcs == 1

\* longest slice a sequential chain starts from
MaxSeqLen == 3
\* sequential element values are 1..MaxSeqElem
MaxSeqElem == 3
\* largest n handed to Limit (the smallest is MinLimit)
MaxLimit == 4
\* longest chain of stages
MaxChain == 2

\* largest value wrapped into an Optional (the smallest is the zero value)
MaxOptValue == 3
\* most enums added to an EnumSet
MaxEnums == 3

MinBudget == 0 - 1
MinLimit == 0 - 1

\* the elements of a ParallelStream input, which the call itself never
\* inspects: 1, on which the faulting mapper panics, and 2
Elems == {1, 2}

\* the mapping functions callers pass: a total one, and one that panics on 1
Mappers == {"double", "panicOnOne"}

VARIABLES
    \* ---- ParallelStream call ----
    S,              \* s.elements of the receiver
    mapper,         \* the mapper argument
    budget,         \* the maxGoroutines argument as passed
    maxGoroutines,  \* the local after defaulting
    pc,             \* position of the calling goroutine inside ParallelStream
    idx,            \* position of the range loop over s.elements
    wg,             \* sync.WaitGroup counter
    sem,            \* number of tokens buffered in the semaphore channel
    resultChan,     \* buffered contents of resultChan
    closed,         \* whether resultChan has been closed
    result,         \* the result slice being collected
    task,           \* per element: state of its worker goroutine
    crashed,        \* the process was terminated by an unrecovered panic
    \* ---- sequential chain ----
    heap,           \* the backing arrays; a slice names one by its index
    recv,           \* slice header of the receiver's elements
    res,            \* slice header of the returned Stream's elements
    snapRecv,       \* the receiver's element sequence when the stage was called
    snapRes,        \* the returned Stream's element sequence when it returned
    phase,          \* "ready", "applied", "mutated" or "panicked"
    op,             \* the stage last applied and its arguments
    who,            \* whose slice the caller mutated afterwards
    depth,          \* stages applied so far on this chain
    \* ---- terminal operations of a Stream ----
    elements,       \* s.elements of the receiver
    call,           \* the terminal operation last called and its arguments
    ret,            \* what that call returned
    \* ---- Optional ----
    opt,            \* the Optional under inspection
    built,          \* the constructor call that made it
    got,            \* the accessor last called on it and what it returned
    \* ---- EnumSet ----
    sets,           \* the EnumSet objects: the values slice of each
    ecall,          \* the EnumSet method last called and its arguments
    eret,           \* what that call returned
    before          \* the receiver's values when the method was called

parVars == <<S, mapper, budget, maxGoroutines, pc, idx, wg, sem, resultChan,
             closed, result, task, crashed>>

seqVars == <<heap, recv, res, snapRecv, snapRes, phase, op, who, depth>>

termVars == <<elements, call, ret>>

optVars == <<opt, built, got>>

enumVars == <<sets, ecall, eret, before>>

vars == <<parVars, seqVars, termVars, optVars, enumVars>>

(* ------------------------- pure helpers -------------------------------- *)
\* all sequences over A of length at most n
SeqsUpTo(A, n) == UNION {[1..m -> A] : m \in 0..n}

\* whether the mapper panics on element e
MapperPanics(m, e) == m = "panicOnOne" /\ e = 1

\* value the mapper returns for element e
MapperValue(m, e) == 2 * e

\* the bag of the elements of a sequence
RECURSIVE SeqToBag(_)
SeqToBag(s) ==
    IF s = <<>> THEN EmptyBag
    ELSE SeqToBag(Tail(s)) (+) SetToBag({Head(s)})

\* the sequence obtained by applying MapperValue to each element in order
MappedSeq(m, s) == [j \in 1..Len(s) |-> MapperValue(m, s[j])]


(* --------------------------- slices ------------------------------------ *)
SeqElems == 1..MaxSeqElem

\* the zero value of the element type, found in capacity never written
Zero == 0

\* the nil slice: no backing array
NilSlice == [arr |-> 0, len |-> 0]

\* cap(sl)
Cap(h, sl) == IF sl.arr = 0 THEN 0 ELSE Len(h[sl.arr])

\* the elements visible through a slice header
View(h, sl) == IF sl.arr = 0 THEN <<>> ELSE SubSeq(h[sl.arr], 1, sl.len)

\* a slice local to a running stage: its array and its length
NilBuf == [a |-> <<>>, n |-> 0]

\* capacity chosen by append when the array is full (doubling, or the
\* needed length when that is larger)
GrowCap(old, need) == IF need > 2 * old THEN need ELSE 2 * old

\* append(b, vs...): in place while the capacity suffices, else into a
\* grown copy
AppendBuf(b, vs) ==
    LET need == b.n + Len(vs)
        newcap == IF need <= Len(b.a) THEN Len(b.a)
                  ELSE GrowCap(Len(b.a), need)
    IN [a |-> [k \in 1..newcap |->
                  IF k <= b.n THEN b.a[k]
                  ELSE IF k <= need THEN vs[k - b.n]
                  ELSE IF k <= Len(b.a) THEN b.a[k]
                  ELSE Zero],
        n |-> need]

\* the renderings of fmt.Sprintf("%v", e) for an int: its decimal digits
RECURSIVE Digits(_)
Digits(e) == IF e < 10 THEN <<e>> ELSE Digits(e \div 10) \o <<e % 10>>

Render(e) == Digits(e)

\* the caller-supplied functions
Preds == {"isEven", "gtOne"}
Pred(p, e) == IF p = "isEven" THEN e % 2 = 0 ELSE e > 1

MapFns == {"double", "one"}
MapFn(f, e) == IF f = "double" THEN 2 * e ELSE 1

FlatFns == {"dup", "evens"}
FlatFn(f, e) ==
    IF f = "dup" THEN <<e, e>>
    ELSE IF e % 2 = 0 THEN <<e>> ELSE <<>>

Lesses == {"lt", "byHalf"}
Less(l, a, b) == IF l = "lt" THEN a < b ELSE (a \div 2) < (b \div 2)


(* ----------------------- sequential stages ----------------------------- *)
NoOp == [name |-> "none", fn |-> "none", n |-> 0]

\* values of the sequential variables while a ParallelStream call is modelled
SeqIdle ==
    /\ heap = <<>>
    /\ recv = NilSlice
    /\ res = NilSlice
    /\ snapRecv = <<>>
    /\ snapRes = <<>>
    /\ phase = "idle"
    /\ op = NoOp
    /\ who = "none"
    /\ depth = 0

\* values of the ParallelStream variables while a chain is modelled
ParIdle ==
    /\ S = <<>>
    /\ mapper = "double"
    /\ budget = 1
    /\ maxGoroutines = 1
    /\ pc = "idle"
    /\ idx = 1
    /\ wg = 0
    /\ sem = 0
    /\ resultChan = <<>>
    /\ closed = FALSE
    /\ result = <<>>
    /\ task = <<>>
    /\ crashed = FALSE

\* a call that was never made and the value it never returned
NoCall == [name |-> "none"]
NoValue == [kind |-> "none"]

\* values of the terminal-operation variables while something else is
\* modelled
TermIdle ==
    /\ elements = <<>>
    /\ call = NoCall
    /\ ret = NoValue

\* values of the Optional variables while something else is modelled
OptIdle ==
    /\ opt = NoValue
    /\ built = NoCall
    /\ got = NoCall

\* values of the EnumSet variables while something else is modelled
EnumIdle ==
    /\ sets = <<>>
    /\ ecall = NoCall
    /\ eret = NoValue
    /\ before = <<>>

\* NewStream over a caller's slice literal
SeqInit ==
    /\ ParIdle
    /\ TermIdle
    /\ OptIdle
    /\ EnumIdle
    /\ heap \in {<<s>> : s \in SeqsUpTo(SeqElems, MaxSeqLen)}
    /\ recv = [arr |-> 1, len |-> Len(heap[1])]
    /\ res = NilSlice
    /\ snapRecv = heap[1]
    /\ snapRes = <<>>
    /\ phase = "ready"
    /\ op = NoOp
    /\ who = "none"
    /\ depth = 0

\* a stage may be applied
Ready == phase = "ready" /\ depth < MaxChain

\* a stage returns NewStream(b) for its local slice b
ReturnFresh(b, o) ==
    /\ heap' = IF b.a = <<>> THEN heap ELSE Append(heap, b.a)
    /\ res' = IF b.a = <<>> THEN NilSlice
              ELSE [arr |-> Len(heap) + 1, len |-> b.n]
    /\ snapRecv' = View(heap, recv)
    /\ snapRes' = SubSeq(b.a, 1, b.n)
    /\ phase' = "applied"
    /\ op' = o
    /\ depth' = depth + 1
    /\ UNCHANGED <<recv, who>>

\* lines 175-177: the body of the loop of Filter for element e
FilterStepKeepingAll(b, p, e) == AppendBuf(b, <<e>>)

FilterStep(b, p, e) == IF Pred(p, e) THEN AppendBuf(b, <<e>>) ELSE b

\* lines 173-178: the loop of Filter from element k on
RECURSIVE FilterFrom(_, _, _, _)
FilterFrom(s, k, p, b) ==
    IF k > Len(s) THEN b
    ELSE FilterFrom(s, k + 1, p, FilterStep(b, p, s[k]))

\* lines 172-180
Filter(p) ==
    /\ Ready
    /\ UNCHANGED <<parVars, termVars, optVars, enumVars>>
    /\ ReturnFresh(FilterFrom(View(heap, recv), 1, p, NilBuf),
                   [name |-> "Filter", fn |-> p, n |-> 0])

\* line 267: the body of the loop of Map for element e
MapStepUnmapped(b, f, e) == AppendBuf(b, <<e>>)

MapStep(b, f, e) == AppendBuf(b, <<MapFn(f, e)>>)

\* lines 265-268: the loop of Map from element k on
RECURSIVE MapFrom(_, _, _, _)
MapFrom(s, k, f, b) ==
    IF k > Len(s) THEN b
    ELSE MapFrom(s, k + 1, f, MapStep(b, f, s[k]))

\* lines 264-270
Map(f) ==
    /\ Ready
    /\ UNCHANGED <<parVars, termVars, optVars, enumVars>>
    /\ ReturnFresh(MapFrom(View(heap, recv), 1, f, NilBuf),
                   [name |-> "Map", fn |-> f, n |-> 0])

\* lines 241-245 and 274-277: the loop of FlatMap from element k on
RECURSIVE FlatMapFrom(_, _, _, _)
FlatMapFrom(s, k, f, b) ==
    IF k > Len(s) THEN b
    ELSE FlatMapFrom(s, k + 1, f, AppendBuf(b, FlatFn(f, s[k])))

\* lines 240-247 (method) and 273-279 (function)
FlatMap(f) ==
    /\ Ready
    /\ UNCHANGED <<parVars, termVars, optVars, enumVars>>
    /\ ReturnFresh(FlatMapFrom(View(heap, recv), 1, f, NilBuf),
                   [name |-> "FlatMap", fn |-> f, n |-> 0])

\* lines 254-256: uniqueMap[key] = true for the key of element e
SeenAfterForgetting(seen, e) == seen

SeenAfter(seen, e) == seen \cup {Render(e)}

\* lines 251-259: the loop of Distinct from element k on, seen = uniqueMap
RECURSIVE DistinctFrom(_, _, _, _)
DistinctFrom(s, k, seen, b) ==
    IF k > Len(s) THEN b
    ELSE IF Render(s[k]) \in seen THEN DistinctFrom(s, k + 1, seen, b)
    ELSE DistinctFrom(s, k + 1, SeenAfter(seen, s[k]),
                      AppendBuf(b, <<s[k]>>))

\* lines 250-261
Distinct ==
    /\ Ready
    /\ UNCHANGED <<parVars, termVars, optVars, enumVars>>
    /\ ReturnFresh(DistinctFrom(View(heap, recv), 1, {}, NilBuf),
                   [name |-> "Distinct", fn |-> "none", n |-> 0])

\* what sort.Slice may leave in a slice holding s: any arrangement of the
\* same elements in which no element is less than one before it (the
\* library does not promise to keep equal elements in their order)
SortOutcomes(s, l) ==
    {[j \in 1..Len(s) |-> s[q[j]]] :
        q \in {r \in Permutations(1..Len(s)) :
                 \A a, b \in 1..Len(s) :
                    a < b => ~Less(l, s[r[b]], s[r[a]])}}

\* the slice Sort hands to sort.Slice, with the heap holding it
SortInPlace(h, sl) == [heap |-> h, sl |-> sl]

SortCopyUnfilled(h, sl) ==
    [heap |-> Append(h, [k \in 1..sl.len |-> Zero]),
     sl |-> [arr |-> Len(h) + 1, len |-> sl.len]]

\* lines 200-201: result := make([]T, len); copy(result, s.elements)
SortCopy(h, sl) ==
    [heap |-> Append(h, View(h, sl)),
     sl |-> [arr |-> Len(h) + 1, len |-> sl.len]]

\* lines 199-206
Sort(l) ==
    /\ Ready
    /\ UNCHANGED <<parVars, termVars, optVars, enumVars>>
    /\ LET c == SortCopy(heap, recv)
       IN \E r \in SortOutcomes(View(c.heap, c.sl), l) :
            /\ heap' = IF c.sl.arr = 0 THEN c.heap
                       ELSE [c.heap EXCEPT ![c.sl.arr] =
                               [k \in 1..Len(@) |->
                                  IF k <= Len(r) THEN r[k] ELSE @[k]]]
            /\ res' = c.sl
            /\ snapRes' = r
    /\ snapRecv' = View(heap, recv)
    /\ phase' = "applied"
    /\ op' = [name |-> "Sort", fn |-> l, n |-> 0]
    /\ depth' = depth + 1
    /\ UNCHANGED <<recv, who>>

\* line 286: stream.elements[:n] panics unless 0 <= n <= cap
SliceToPanics(h, sl, n) == n < 0 \/ n > Cap(h, sl)

\* lines 283-286: the elements of the Stream that Limit returns
LimitSliceOneMore(sl, n) ==
    IF n >= sl.len THEN sl ELSE [arr |-> sl.arr, len |-> n + 1]

LimitSlice(sl, n) ==
    IF n >= sl.len THEN sl ELSE [arr |-> sl.arr, len |-> n]

\* lines 282-287
Limit(n) ==
    /\ Ready
    /\ UNCHANGED <<parVars, termVars, optVars, enumVars>>
    /\ n >= recv.len \/ ~SliceToPanics(heap, recv, n)
    /\ res' = LimitSlice(recv, n)
    /\ snapRecv' = View(heap, recv)
    /\ snapRes' = View(heap, res')
    /\ phase' = "applied"
    /\ op' = [name |-> "Limit", fn |-> "none", n |-> n]
    /\ depth' = depth + 1
    /\ UNCHANGED <<heap, recv, who>>

\* lines 283-286: the slice expression of Limit panics
LimitPanic(n) ==
    /\ Ready
    /\ UNCHANGED <<parVars, termVars, optVars, enumVars>>
    /\ n < recv.len
    /\ SliceToPanics(heap, recv, n)
    /\ snapRecv' = View(heap, recv)
    /\ phase' = "panicked"
    /\ op' = [name |-> "Limit", fn |-> "none", n |-> n]
    /\ depth' = depth + 1
    /\ UNCHANGED <<heap, recv, res, snapRes, who>>

\* the heap after x[k] = v through slice sl
WriteAt(h, sl, k, v) == [h EXCEPT ![sl.arr][k] = v]

\* the heap after append(x, v) through slice sl: within the capacity the
\* element lands in the array sl shares, otherwise in a grown copy
AppendAt(h, sl, v) ==
    IF sl.len < Cap(h, sl) THEN WriteAt(h, sl, sl.len + 1, v)
    ELSE Append(h, AppendBuf([a |-> View(h, sl), n |-> sl.len], <<v>>).a)

\* lines 209-211, 219-221, 290-292: the caller takes ToSlice()/Collect() of
\* the returned Stream and assigns to one of its elements
WriteRes(k, v) ==
    /\ phase = "applied"
    /\ UNCHANGED <<parVars, termVars, optVars, enumVars>>
    /\ k \in 1..res.len
    /\ heap' = WriteAt(heap, res, k, v)
    /\ phase' = "mutated"
    /\ who' = "res"
    /\ UNCHANGED <<recv, res, snapRecv, snapRes, op, depth>>

\* the caller appends to the slice taken from the returned Stream
AppendRes(v) ==
    /\ phase = "applied"
    /\ UNCHANGED <<parVars, termVars, optVars, enumVars>>
    /\ heap' = AppendAt(heap, res, v)
    /\ phase' = "mutated"
    /\ who' = "res"
    /\ UNCHANGED <<recv, res, snapRecv, snapRes, op, depth>>

\* the caller assigns to an element of the slice taken from the receiver
WriteRecv(k, v) ==
    /\ phase = "applied"
    /\ UNCHANGED <<parVars, termVars, optVars, enumVars>>
    /\ k \in 1..recv.len
    /\ heap' = WriteAt(heap, recv, k, v)
    /\ phase' = "mutated"
    /\ who' = "recv"
    /\ UNCHANGED <<recv, res, snapRecv, snapRes, op, depth>>

\* the caller appends to the slice taken from the receiver
AppendRecv(v) ==
    /\ phase = "applied"
    /\ UNCHANGED <<parVars, termVars, optVars, enumVars>>
    /\ heap' = AppendAt(heap, recv, v)
    /\ phase' = "mutated"
    /\ who' = "recv"
    /\ UNCHANGED <<recv, res, snapRecv, snapRes, op, depth>>

\* the chain goes on: the returned Stream is the next receiver and the
\* arrays nothing refers to any more are collected (chains are followed
\* while the Stream is no longer than MaxSeqLen); op and snapRecv keep
\* the stage just applied and its input until the next stage is applied
Chain ==
    /\ phase = "applied"
    /\ depth < MaxChain
    /\ res.len <= MaxSeqLen
    /\ UNCHANGED <<parVars, termVars, optVars, enumVars>>
    /\ heap' = IF res.arr = 0 THEN <<>> ELSE <<heap[res.arr]>>
    /\ recv' = [arr |-> IF res.arr = 0 THEN 0 ELSE 1, len |-> res.len]
    /\ res' = NilSlice
    /\ snapRes' = <<>>
    /\ phase' = "ready"
    /\ UNCHANGED <<snapRecv, op, who, depth>>

SeqNext ==
    \/ \E p \in Preds : Filter(p)
    \/ \E f \in MapFns : Map(f)
    \/ \E f \in FlatFns : FlatMap(f)
    \/ Distinct
    \/ \E l \in Lesses : Sort(l)
    \/ \E n \in MinLimit..MaxLimit : Limit(n)
    \/ \E n \in MinLimit..MaxLimit : LimitPanic(n)
    \/ \E k \in 1..(2 * MaxSeqLen), v \in SeqElems : WriteRes(k, v)
    \/ \E v \in SeqElems : AppendRes(v)
    \/ \E k \in 1..(2 * MaxSeqLen), v \in SeqElems : WriteRecv(k, v)
    \/ \E v \in SeqElems : AppendRecv(v)
    \/ Chain

SeqSpec == SeqInit /\ [][SeqNext]_vars

(* ------------------------- ParallelStream ------------------------------ *)
ParInit ==
    /\ S \in SeqsUpTo(Elems, MaxLen)
    /\ mapper \in Mappers
    /\ budget \in MinBudget..MaxBudget
    /\ maxGoroutines = budget
    /\ pc = "start"
    /\ idx = 1
    /\ wg = 0
    /\ sem = 0
    /\ resultChan = <<>>
    /\ closed = FALSE
    /\ result = <<>>
    /\ task = [j \in 1..Len(S) |-> "pending"]
    /\ crashed = FALSE
    /\ SeqIdle
    /\ TermIdle
    /\ OptIdle
    /\ EnumIdle

\* lines 411-419: default the budget, make the WaitGroup and the channels
DefaultBudget ==
    /\ ~crashed
    /\ UNCHANGED <<seqVars, termVars, optVars, enumVars>>
    /\ pc = "start"
    /\ \E procs \in 1..MaxProcs :
          maxGoroutines' = IF budget <= 0 THEN procs ELSE budget
    /\ pc' = "loop"
    /\ UNCHANGED <<S, mapper, budget, idx, wg, sem, resultChan, closed,
                   result, task, crashed>>

\* line 421: the range loop is over, fall through to wg.Wait
LoopExit ==
    /\ ~crashed
    /\ UNCHANGED <<seqVars, termVars, optVars, enumVars>>
    /\ pc = "loop"
    /\ idx > Len(S)
    /\ pc' = "wait"
    /\ UNCHANGED <<S, mapper, budget, maxGoroutines, idx, wg, sem,
                   resultChan, closed, result, task, crashed>>

\* line 422: wg.Add(1) for the next element
WgAdd ==
    /\ ~crashed
    /\ UNCHANGED <<seqVars, termVars, optVars, enumVars>>
    /\ pc = "loop"
    /\ idx <= Len(S)
    /\ wg' = wg + 1
    /\ pc' = "acquire"
    /\ UNCHANGED <<S, mapper, budget, maxGoroutines, idx, sem, resultChan,
                   closed, result, task, crashed>>

\* line 419: sem := make(chan struct{}, maxGoroutines)
SemCapacityOneLess(k) == k - 1

SemCapacity(k) == k

\* line 416: resultChan := make(chan interface{}, len(s.elements))
ResultCapOne(n) == 1

ResultCapOneLess(n) == n - 1

ResultCap(n) == n

\* a send on the semaphore channel proceeds only while its buffer has room
SemHasRoomUnbounded(n, cap) == TRUE

SemHasRoomOffByOne(n, cap) == n <= cap

SemHasRoom(n, cap) == n < cap

\* line 421: the range loop moves on to the next element
NextIdxSkipping(k) == k + 2

NextIdx(k) == k + 1

\* lines 423-424: sem <- struct{}{} and the go statement for element idx
Dispatch ==
    /\ ~crashed
    /\ UNCHANGED <<seqVars, termVars, optVars, enumVars>>
    /\ pc = "acquire"
    /\ SemHasRoom(sem, SemCapacity(maxGoroutines))
    /\ sem' = sem + 1
    /\ task' = [task EXCEPT ![idx] = "scheduled"]
    /\ idx' = NextIdx(idx)
    /\ pc' = "loop"
    /\ UNCHANGED <<S, mapper, budget, maxGoroutines, wg, resultChan, closed,
                   result, crashed>>

\* line 428: the worker goroutine starts running and calls mapper(el)
MapperStart(j) ==
    /\ ~crashed
    /\ UNCHANGED <<seqVars, termVars, optVars, enumVars>>
    /\ task[j] = "scheduled"
    /\ task' = [task EXCEPT ![j] = "running"]
    /\ UNCHANGED <<S, mapper, budget, maxGoroutines, pc, idx, wg, sem,
                   resultChan, closed, result, crashed>>

\* line 428: mapper(el) returns its value
MapperReturn(j) ==
    /\ ~crashed
    /\ UNCHANGED <<seqVars, termVars, optVars, enumVars>>
    /\ task[j] = "running"
    /\ ~MapperPanics(mapper, S[j])
    /\ task' = [task EXCEPT ![j] = "mapped"]
    /\ UNCHANGED <<S, mapper, budget, maxGoroutines, pc, idx, wg, sem,
                   resultChan, closed, result, crashed>>

\* line 428: mapper(el) panics; the send is skipped and the defers will run
MapperPanic(j) ==
    /\ ~crashed
    /\ UNCHANGED <<seqVars, termVars, optVars, enumVars>>
    /\ task[j] = "running"
    /\ MapperPanics(mapper, S[j])
    /\ task' = [task EXCEPT ![j] = "panicking"]
    /\ UNCHANGED <<S, mapper, budget, maxGoroutines, pc, idx, wg, sem,
                   resultChan, closed, result, crashed>>

\* line 428: resultChan <- v; the send proceeds while the channel is open
\* and its buffer has room
Send(j) ==
    /\ ~crashed
    /\ UNCHANGED <<seqVars, termVars, optVars, enumVars>>
    /\ task[j] = "mapped"
    /\ ~closed
    /\ Len(resultChan) < ResultCap(Len(S))
    /\ resultChan' = Append(resultChan, MapperValue(mapper, S[j]))
    /\ task' = [task EXCEPT ![j] = "completed"]
    /\ UNCHANGED <<S, mapper, budget, maxGoroutines, pc, idx, wg, sem,
                   closed, result, crashed>>

\* the state a worker is in once its deferred <-sem has run
AfterRelease(st) == IF st = "completed" THEN "released" ELSE "faultReleased"

\* line 426: <-sem takes one token out of the semaphore channel
SemAfterReleaseLeaking(n) == n

SemAfterRelease(n) == n - 1

\* line 426: deferred func() { <-sem }(), run on return and on panic alike
ReleaseSem(j) ==
    /\ ~crashed
    /\ UNCHANGED <<seqVars, termVars, optVars, enumVars>>
    /\ task[j] \in {"completed", "panicking"}
    /\ sem > 0
    /\ sem' = SemAfterRelease(sem)
    /\ task' = [task EXCEPT ![j] = AfterRelease(task[j])]
    /\ UNCHANGED <<S, mapper, budget, maxGoroutines, pc, idx, wg,
                   resultChan, closed, result, crashed>>

\* line 425: deferred wg.Done(), the last deferred call of the worker
WgDone(j) ==
    /\ ~crashed
    /\ UNCHANGED <<seqVars, termVars, optVars, enumVars>>
    /\ task[j] \in {"released", "faultReleased"}
    /\ wg' = wg - 1
    /\ task' = [task EXCEPT ![j] =
                   IF task[j] = "released" THEN "exited" ELSE "faulted"]
    /\ UNCHANGED <<S, mapper, budget, maxGoroutines, pc, idx, sem,
                   resultChan, closed, result, crashed>>

\* a panic nobody recovers terminates the process once the panicking
\* goroutine has run its deferred calls
Crash ==
    /\ ~crashed
    /\ UNCHANGED <<seqVars, termVars, optVars, enumVars>>
    /\ \E j \in 1..Len(S) : task[j] = "faulted"
    /\ crashed' = TRUE
    /\ UNCHANGED <<S, mapper, budget, maxGoroutines, pc, idx, wg, sem,
                   resultChan, closed, result, task>>

\* wg.Wait returns only when the counter is zero
WaitReadyNoWait(n) == TRUE

WaitReadyOneLeft(n) == n <= 1

WaitReady(n) == n = 0

\* line 433: wg.Wait()
WgWait ==
    /\ ~crashed
    /\ UNCHANGED <<seqVars, termVars, optVars, enumVars>>
    /\ pc = "wait"
    /\ WaitReady(wg)
    /\ pc' = "close"
    /\ UNCHANGED <<S, mapper, budget, maxGoroutines, idx, wg, sem,
                   resultChan, closed, result, task, crashed>>

\* line 434: close(resultChan)
CloseChan ==
    /\ ~crashed
    /\ UNCHANGED <<seqVars, termVars, optVars, enumVars>>
    /\ pc = "close"
    /\ closed' = TRUE
    /\ pc' = "collect"
    /\ UNCHANGED <<S, mapper, budget, maxGoroutines, idx, wg, sem,
                   resultChan, result, task, crashed>>

\* line 439: result = append(result, res)
CollectedOverwriting(r, v) == <<v>>

CollectedPrepending(r, v) == <<v>> \o r

Collected(r, v) == Append(r, v)

\* lines 438-440: one iteration of the range over resultChan
Collect ==
    /\ ~crashed
    /\ UNCHANGED <<seqVars, termVars, optVars, enumVars>>
    /\ pc = "collect"
    /\ resultChan # <<>>
    /\ result' = Collected(result, Head(resultChan))
    /\ resultChan' = Tail(resultChan)
    /\ UNCHANGED <<S, mapper, budget, maxGoroutines, pc, idx, wg, sem,
                   closed, task, crashed>>

\* lines 438-442: the range ends on the closed, drained channel and the
\* call returns NewStream(result)
Return ==
    /\ ~crashed
    /\ UNCHANGED <<seqVars, termVars, optVars, enumVars>>
    /\ pc = "collect"
    /\ resultChan = <<>>
    /\ closed
    /\ pc' = "returned"
    /\ UNCHANGED <<S, mapper, budget, maxGoroutines, idx, wg, sem,
                   resultChan, closed, result, task, crashed>>

\* the steps of the goroutine that called ParallelStream
Dispatcher ==
    \/ DefaultBudget
    \/ LoopExit
    \/ WgAdd
    \/ Dispatch
    \/ WgWait
    \/ CloseChan
    \/ Collect
    \/ Return

\* the steps of the worker goroutine of element j
Worker(j) ==
    /\ j \in 1..Len(S)
    /\ \/ MapperStart(j)
       \/ MapperReturn(j)
       \/ MapperPanic(j)
       \/ Send(j)
       \/ ReleaseSem(j)
       \/ WgDone(j)

Next ==
    \/ DefaultBudget
    \/ LoopExit
    \/ WgAdd
    \/ Dispatch
    \/ WgWait
    \/ CloseChan
    \/ Collect
    \/ Return
    \/ \E j \in 1..Len(S) : MapperStart(j)
    \/ \E j \in 1..Len(S) : MapperReturn(j)
    \/ \E j \in 1..Len(S) : MapperPanic(j)
    \/ \E j \in 1..Len(S) : Send(j)
    \/ \E j \in 1..Len(S) : ReleaseSem(j)
    \/ \E j \in 1..Len(S) : WgDone(j)
    \/ Crash

Spec == ParInit /\ [][Next]_vars

\* the Go scheduler lets every runnable goroutine run eventually, and an
\* unrecovered panic does terminate the process: while some goroutine can
\* take a step, a step is taken. Weak fairness of the dispatcher, of every
\* worker and of the crash each imply this condition, so what holds under
\* it holds under them
FairSpec ==
    /\ ParInit
    /\ [][Next]_vars
    /\ WF_vars(Next)

(* ----------------------------- Optional -------------------------------- *)
\* the error values Get returns
ErrNoValuePresent == "no value present"
NilError == "nil"

\* the values wrapped, of type int, whose zero value is Zero
OptValues == Zero..MaxOptValue

\* the isZero functions callers hand to OfNullable
IsZeroFns == {"eqZero", "belowTwo", "never"}
IsZeroFn(z, v) ==
    IF z = "eqZero" THEN v = Zero
    ELSE IF z = "belowTwo" THEN v < 2
    ELSE FALSE

\* optional.go lines 18-20
Of(v) == [value |-> v, found |-> TRUE]

\* optional.go lines 23-25, zero being the zero value of the type parameter
Empty(zero) == [value |-> zero, found |-> FALSE]

\* optional.go lines 30-35
OfNullableComparingZero(v, z, zero) ==
    IF v = zero THEN Empty(zero) ELSE Of(v)

OfNullable(v, z, zero) == IF IsZeroFn(z, v) THEN Empty(zero) ELSE Of(v)

\* optional.go lines 38-44
GetIfPresent(o, zero) ==
    IF o.found THEN <<o.value, TRUE>> ELSE <<zero, FALSE>>

\* optional.go lines 47-49
IsPresent(o) == o.found

\* optional.go lines 52-58
Get(o, zero) ==
    IF o.found THEN <<o.value, NilError>> ELSE <<zero, ErrNoValuePresent>>

\* optional.go lines 61-66
OrElse(o, d) == IF o.found THEN o.value ELSE d

\* nothing has been wrapped yet
OptInit ==
    /\ ParIdle
    /\ SeqIdle
    /\ TermIdle
    /\ EnumIdle
    /\ opt = NoValue
    /\ built = NoCall
    /\ got = NoCall

\* the caller builds an Optional with Of
CallOf(v) ==
    /\ built.name = "none"
    /\ opt' = Of(v)
    /\ built' = [name |-> "Of", v |-> v, z |-> "none"]
    /\ UNCHANGED <<got, parVars, seqVars, termVars, enumVars>>

\* the caller builds an Optional with Empty
CallEmpty ==
    /\ built.name = "none"
    /\ opt' = Empty(Zero)
    /\ built' = [name |-> "Empty", v |-> Zero, z |-> "none"]
    /\ UNCHANGED <<got, parVars, seqVars, termVars, enumVars>>

\* the caller builds an Optional with OfNullable
CallOfNullable(v, z) ==
    /\ built.name = "none"
    /\ opt' = OfNullable(v, z, Zero)
    /\ built' = [name |-> "OfNullable", v |-> v, z |-> z]
    /\ UNCHANGED <<got, parVars, seqVars, termVars, enumVars>>

\* the caller calls an accessor of the Optional it built
CallGet ==
    /\ built.name # "none"
    /\ got' = [name |-> "Get", d |-> Zero, out |-> Get(opt, Zero)]
    /\ UNCHANGED <<opt, built, parVars, seqVars, termVars, enumVars>>

CallGetIfPresent ==
    /\ built.name # "none"
    /\ got' = [name |-> "GetIfPresent", d |-> Zero,
               out |-> GetIfPresent(opt, Zero)]
    /\ UNCHANGED <<opt, built, parVars, seqVars, termVars, enumVars>>

CallIsPresent ==
    /\ built.name # "none"
    /\ got' = [name |-> "IsPresent", d |-> Zero, out |-> IsPresent(opt)]
    /\ UNCHANGED <<opt, built, parVars, seqVars, termVars, enumVars>>

CallOrElse(d) ==
    /\ built.name # "none"
    /\ got' = [name |-> "OrElse", d |-> d, out |-> OrElse(opt, d)]
    /\ UNCHANGED <<opt, built, parVars, seqVars, termVars, enumVars>>

OptNext ==
    \/ \E v \in OptValues : CallOf(v)
    \/ CallEmpty
    \/ \E v \in OptValues, z \in IsZeroFns : CallOfNullable(v, z)
    \/ CallGet
    \/ CallGetIfPresent
    \/ CallIsPresent
    \/ \E d \in OptValues : CallOrElse(d)

OptSpec == OptInit /\ [][OptNext]_vars

(* ------------------- terminal operations of a Stream ------------------- *)
\* the reducer functions callers pass and the initial values
Reducers == {"add", "sub"}
Reducer(f, a, b) == IF f = "add" THEN a + b ELSE a - b
InitialValues == {0, 10}

\* line 193: accumulator = reducer(accumulator, e); log records the
\* arguments of every reducer call
ReduceStepSwapped(acc, f, e) ==
    [value |-> Reducer(f, e, acc.value),
     log |-> Append(acc.log, <<acc.value, e>>)]

ReduceStep(acc, f, e) ==
    [value |-> Reducer(f, acc.value, e),
     log |-> Append(acc.log, <<acc.value, e>>)]

\* lines 192-194: the loop of Reduce from element k on
RECURSIVE ReduceFrom(_, _, _, _)
ReduceFrom(s, k, f, acc) ==
    IF k > Len(s) THEN acc
    ELSE ReduceFrom(s, k + 1, f, ReduceStep(acc, f, s[k]))

\* lines 190-196
Reduce(s, f, initialValue) ==
    ReduceFrom(s, 1, f, [value |-> initialValue, log |-> <<>>])

\* lines 224-229
FindAnyLast(s) == IF Len(s) > 0 THEN Of(s[Len(s)]) ELSE Empty(Zero)

FindAny(s) == IF Len(s) > 0 THEN Of(s[1]) ELSE Empty(Zero)

\* lines 232-237
FindFirst(s) == IF Len(s) > 0 THEN Of(s[1]) ELSE Empty(Zero)

\* a string is the sequence of its characters, a decimal digit standing
\* for itself and any other character for its code point
Comma == 44
Space == 32

\* the separators callers pass: none, ",", ", " and the digit "1"
Separators == {<<>>, <<Comma>>, <<Comma, Space>>, <<1>>}

\* lines 309-312: the body of the loop of Join for the element at index i
JoinWriteTrailing(b, i, sep, e) == b \o Render(e) \o sep

JoinWrite(b, i, sep, e) == (IF i > 0 THEN b \o sep ELSE b) \o Render(e)

\* lines 308-313: the loop of Join from element k on
RECURSIVE JoinFrom(_, _, _, _)
JoinFrom(s, k, sep, b) ==
    IF k > Len(s) THEN b
    ELSE JoinFrom(s, k + 1, sep, JoinWrite(b, k - 1, sep, s[k]))

\* lines 298-315
Join(s, sep) ==
    IF Len(s) = 0 THEN <<>>
    ELSE IF Len(s) = 1 THEN Render(s[1])
    ELSE JoinFrom(s, 1, sep, <<>>)

\* the key mappers callers pass: by parity and constant (string keys), and
\* the element itself
StringKeyFns == {"parity", "const"}
KeyFns == StringKeyFns \cup {"self"}
KeyFn(kf, e) ==
    IF kf = "parity" THEN (IF e % 2 = 0 THEN "even" ELSE "odd")
    ELSE IF kf = "const" THEN "all"
    ELSE e

\* the value mappers callers pass: to a string, to a number, and "same"
\* for the operations that group the elements themselves
StringValueFns == {"render"}
ValueFns == StringValueFns \cup {"double"}
ValueFn(vf, e) ==
    IF vf = "render" THEN Render(e)
    ELSE IF vf = "double" THEN 2 * e
    ELSE e

\* make(map[K][]V)
EmptyMap == [x \in {} |-> <<>>]

\* result[key] = append(result[key], value), a missing key reading as nil
GroupStepPrepending(m, k, v) ==
    [x \in DOMAIN m \cup {k} |->
        IF x = k THEN (IF k \in DOMAIN m THEN <<v>> \o m[k] ELSE <<v>>)
        ELSE m[x]]

GroupStep(m, k, v) ==
    [x \in DOMAIN m \cup {k} |->
        IF x = k THEN (IF k \in DOMAIN m THEN Append(m[k], v) ELSE <<v>>)
        ELSE m[x]]

\* the loop every grouping operation runs, from element k on
RECURSIVE GroupFrom(_, _, _, _, _)
GroupFrom(s, k, kf, vf, m) ==
    IF k > Len(s) THEN m
    ELSE GroupFrom(s, k + 1, kf, vf,
                   GroupStep(m, KeyFn(kf, s[k]), ValueFn(vf, s[k])))

\* lines 320-329, the method
StreamGroupBy(s, kf) == GroupFrom(s, 1, kf, "same", EmptyMap)

\* lines 334-344
GroupByAndTransform(s, kf, vf) == GroupFrom(s, 1, kf, vf, EmptyMap)

\* lines 347-356
GroupByString(s, kf) == GroupFrom(s, 1, kf, "same", EmptyMap)

\* lines 359-369
GroupByStringToString(s, kf, vf) == GroupFrom(s, 1, kf, vf, EmptyMap)

\* lines 374-383, the function
GroupBy(s, kf) == GroupFrom(s, 1, kf, "same", EmptyMap)

\* lines 388-398
GroupByWithValueMapper(s, kf, vf) == GroupFrom(s, 1, kf, vf, EmptyMap)

\* NewStream over a caller's slice literal, no terminal operation called yet
TermInit ==
    /\ ParIdle
    /\ SeqIdle
    /\ OptIdle
    /\ EnumIdle
    /\ elements \in SeqsUpTo(SeqElems, MaxSeqLen)
    /\ call = NoCall
    /\ ret = NoValue

\* the caller calls a terminal operation on the Stream; the receiver's
\* elements are only read
Called(name, fn, arg, value) ==
    /\ call' = [name |-> name, fn |-> fn, arg |-> arg]
    /\ ret' = value
    /\ UNCHANGED <<elements, parVars, seqVars, optVars, enumVars>>

CallReduce(f, initialValue) ==
    Called("Reduce", f, initialValue, Reduce(elements, f, initialValue))

CallFindAny == Called("FindAny", "none", "none", FindAny(elements))

CallFindFirst == Called("FindFirst", "none", "none", FindFirst(elements))

CallJoin(sep) == Called("Join", "none", sep, Join(elements, sep))

CallStreamGroupBy(kf) ==
    Called("Stream.GroupBy", kf, "same", StreamGroupBy(elements, kf))

CallGroupByAndTransform(kf, vf) ==
    Called("GroupByAndTransform", kf, vf,
           GroupByAndTransform(elements, kf, vf))

CallGroupByString(kf) ==
    Called("GroupByString", kf, "same", GroupByString(elements, kf))

CallGroupByStringToString(kf, vf) ==
    Called("GroupByStringToString", kf, vf,
           GroupByStringToString(elements, kf, vf))

CallGroupBy(kf) == Called("GroupBy", kf, "same", GroupBy(elements, kf))

CallGroupByWithValueMapper(kf, vf) ==
    Called("GroupByWithValueMapper", kf, vf,
           GroupByWithValueMapper(elements, kf, vf))

TermNext ==
    \/ \E f \in Reducers, i \in InitialValues : CallReduce(f, i)
    \/ CallFindAny
    \/ CallFindFirst
    \/ \E sep \in Separators : CallJoin(sep)
    \/ \E kf \in KeyFns : CallStreamGroupBy(kf)
    \/ \E kf \in KeyFns, vf \in ValueFns : CallGroupByAndTransform(kf, vf)
    \/ \E kf \in StringKeyFns : CallGroupByString(kf)
    \/ \E kf \in StringKeyFns, vf \in StringValueFns :
          CallGroupByStringToString(kf, vf)
    \/ \E kf \in KeyFns : CallGroupBy(kf)
    \/ \E kf \in KeyFns, vf \in ValueFns : CallGroupByWithValueMapper(kf, vf)

TermSpec == TermInit /\ [][TermNext]_vars

(* ------------------------------ EnumSet -------------------------------- *)
\* the enums callers add: Enum[int]{Name, Value}
EnumNames == {"FIRST", "SECOND"}
EnumValues == 1..2
Enums == [Name : EnumNames, Value : EnumValues]

\* the names callers look up, one of which no enum bears
SearchNames == EnumNames \cup {"THIRD"}

\* the zero value Enum[int]{}
ZeroEnum == [Name |-> "", Value |-> Zero]

\* the getOrder functions callers pass: the value, its negation, a constant
OrderFns == {"byValue", "descending", "flat"}
GetOrder(g, v) ==
    IF g = "byValue" THEN v
    ELSE IF g = "descending" THEN 0 - v
    ELSE 0

\* the one EnumSet the caller holds
Receiver == 1

\* part_004 lines 29-31
Values(h, ref) == h[ref]

\* part_004 lines 36-41: the loop of FindByName from element k on
FindByNameLast(vs, k, name) ==
    LET hits == {j \in k..Len(vs) : vs[j].Name = name}
    IN IF hits = {} THEN Empty(ZeroEnum)
       ELSE Of(vs[CHOOSE j \in hits : \A m \in hits : m <= j])

RECURSIVE FindByNameFrom(_, _, _)
FindByNameFrom(vs, k, name) ==
    IF k > Len(vs) THEN Empty(ZeroEnum)
    ELSE IF vs[k].Name = name THEN Of(vs[k])
    ELSE FindByNameFrom(vs, k + 1, name)

\* part_004 lines 47-49: sort.SliceStable is an insertion sort up to 20
\* elements; e goes behind every element that is not greater
InsertBeforeEquals(sorted, e, g) ==
    LET n == Cardinality({k \in 1..Len(sorted) :
                 GetOrder(g, sorted[k].Value) < GetOrder(g, e.Value)})
    IN SubSeq(sorted, 1, n) \o <<e>> \o SubSeq(sorted, n + 1, Len(sorted))

InsertStable(sorted, e, g) ==
    LET n == Cardinality({k \in 1..Len(sorted) :
                 ~(GetOrder(g, e.Value) < GetOrder(g, sorted[k].Value))})
    IN SubSeq(sorted, 1, n) \o <<e>> \o SubSeq(sorted, n + 1, Len(sorted))

\* part_004 lines 47-49: sort.SliceStable over the first k elements
RECURSIVE SliceStable(_, _, _)
SliceStable(vs, k, g) ==
    IF k = 0 THEN <<>>
    ELSE InsertStable(SliceStable(vs, k - 1, g), vs[k], g)

\* part_004 lines 19-21: NewEnumSet
EnumInit ==
    /\ ParIdle
    /\ SeqIdle
    /\ TermIdle
    /\ OptIdle
    /\ sets = <<<<>>>>
    /\ ecall = NoCall
    /\ eret = NoValue
    /\ before = <<>>

\* part_004 lines 24-26
Add(e) ==
    /\ Len(sets[Receiver]) < MaxEnums
    /\ sets' = [sets EXCEPT ![Receiver] = Append(@, e)]
    /\ ecall' = [name |-> "Add", arg |-> e]
    /\ eret' = NoValue
    /\ before' = sets[Receiver]
    /\ UNCHANGED <<parVars, seqVars, termVars, optVars>>

\* part_004 lines 35-42
FindByName(name) ==
    /\ eret' = FindByNameFrom(sets[Receiver], 1, name)
    /\ ecall' = [name |-> "FindByName", arg |-> name]
    /\ before' = sets[Receiver]
    /\ UNCHANGED <<sets, parVars, seqVars, termVars, optVars>>

\* part_004 lines 46-51: the values are sorted in place and the receiver
\* is returned
SortByOrder(g) ==
    /\ sets' = [sets EXCEPT ![Receiver] = SliceStable(@, Len(@), g)]
    /\ eret' = [kind |-> "set", ref |-> Receiver]
    /\ ecall' = [name |-> "SortByOrder", arg |-> g]
    /\ before' = sets[Receiver]
    /\ UNCHANGED <<parVars, seqVars, termVars, optVars>>

EnumNext ==
    \/ \E e \in Enums : Add(e)
    \/ \E name \in SearchNames : FindByName(name)
    \/ \E g \in OrderFns : SortByOrder(g)

EnumSpec == EnumInit /\ [][EnumNext]_vars

(* ===================== properties of ParallelStream ==================== *)
Tasks == 1..Len(S)

\* the mapper returns a value for every element of S
MapperTotal == \A j \in Tasks : ~MapperPanics(mapper, S[j])

\* mapper invocations that have started and not yet finished
InFlight == {j \in Tasks : task[j] = "running"}

\* C1: when the mapper returns a value for every element, the Container the
\* call returns holds exactly len(S) results and their multiset is the
\* multiset of the mapper's values over S, whatever the budget and the
\* interleaving of the workers
C1_ResultIsImageBag ==
    (pc = "returned" /\ MapperTotal) =>
        /\ Len(result) = Len(S)
        /\ SeqToBag(result) = SeqToBag(MappedSeq(mapper, S))

\* a throttled call has returned its results in an order other than the input's
C1_Witness ==
    /\ pc = "returned"
    /\ MapperTotal
    /\ Len(S) = 3
    /\ maxGoroutines = 2
    /\ result # MappedSeq(mapper, S)

\* C2: with a budget k >= 1 the number of mapper invocations started and
\* not yet finished never exceeds k
C2_InFlightWithinBudget ==
    budget >= 1 => Cardinality(InFlight) <= budget

\* the pool is saturated with running mappers and the dispatcher waits for a slot
C2_Witness ==
    /\ budget = 2
    /\ Cardinality(InFlight) = 2
    /\ pc = "acquire"
    /\ sem = maxGoroutines

\* C3: in the state where the call returns, every worker has finished (its
\* mapper reached a terminal state and its deferred calls ran), every
\* produced result has been collected and none is left in the channel
C3_ReturnAfterAllCollected ==
    pc = "returned" =>
        /\ \A j \in Tasks : task[j] \in {"exited", "faulted"}
        /\ resultChan = <<>>
        /\ Len(result) = Cardinality({j \in Tasks : task[j] = "exited"})

\* a call over three elements with a budget of one has returned
C3_Witness ==
    /\ pc = "returned"
    /\ Len(S) = 3
    /\ maxGoroutines = 1
    /\ Len(result) = 3

\* C4: under weak fairness of dispatcher and workers a call whose mapper
\* returns for every element eventually returns, for every budget; and no
\* call gets stuck: it returns or, when a mapper panics, the process is
\* terminated by the panic (S and mapper never change, so MapperTotal is
\* fixed by the initial state)
C4_EventuallyReturns ==
    <>(pc = "returned" \/ (crashed /\ ~MapperTotal))

\* a call with a defaulted budget smaller than its input has returned
C4_Witness ==
    /\ pc = "returned"
    /\ budget <= 0
    /\ maxGoroutines < Len(S)
    /\ MapperTotal

\* the stage of the per-invocation state machine a worker state belongs to:
\* Pending 0, Scheduled 1, Running 2, Completed or Faulted 3
Stage(st) ==
    CASE st = "pending" -> 0
      [] st = "scheduled" -> 1
      [] st = "running" -> 2
      [] OTHER -> 3

\* whether a worker state lies on the Faulted side
IsFaulted(st) == st \in {"panicking", "faultReleased", "faulted"}

\* a step moves no invocation backwards, skips no stage, starts a mapper
\* only for a scheduled element and never turns Completed into Faulted
ForwardOnly ==
    \A j \in Tasks :
        /\ Stage(task'[j]) \in {Stage(task[j]), Stage(task[j]) + 1}
        /\ (Stage(task[j]) = 3 => IsFaulted(task'[j]) = IsFaulted(task[j]))

\* once the loop is over every element has been scheduled, and once the
\* wait is over every invocation has reached a terminal stage
NoneSkipped ==
    /\ pc \in {"wait", "close", "collect", "returned"} =>
          \A j \in Tasks : Stage(task[j]) >= 1
    /\ pc \in {"close", "collect", "returned"} =>
          \A j \in Tasks : Stage(task[j]) = 3

\* C5: every element is scheduled exactly once: no element is skipped, and
\* each invocation only moves forward through Pending, Scheduled, Running,
\* then Completed or Faulted, so no mapper is started twice
C5_ScheduledExactlyOnce == []NoneSkipped /\ [][ForwardOnly]_vars

\* the last of three elements is still pending while the first has completed
C5_Witness ==
    /\ Len(S) = 3
    /\ task[1] = "exited"
    /\ task[2] = "running"
    /\ task[3] = "pending"

\* C6: if a mapper invocation panics the call never returns a Container to
\* its caller
C6_FaultNeverReturns ==
    (\E j \in Tasks : IsFaulted(task[j])) => pc # "returned"

\* C11: with a budget of 1 no two mapper invocations overlap, and the
\* invocation for an element starts only after the invocation for the
\* element before it has finished
C11_BudgetOneSequential ==
    budget = 1 =>
        /\ Cardinality(InFlight) <= 1
        /\ \A j \in Tasks :
              (j > 1 /\ Stage(task[j]) >= 2) =>
                  (Stage(task[j - 1]) = 3)

\* with a budget of 1 the second mapper runs after the first one has
\* finished and while the third element still waits
C11_Witness ==
    /\ budget = 1
    /\ Len(S) = 3
    /\ task[1] = "exited"
    /\ task[2] = "running"
    /\ task[3] = "pending"
    /\ pc = "acquire"

\* C12: with a budget k >= len(S) the dispatcher never waits for a slot:
\* whenever it is about to acquire one, the semaphore has room
C12_NeverWaitsWhenBudgetCoversInput ==
    (budget >= 1 /\ budget >= Len(S) /\ pc = "acquire") =>
        SemHasRoom(sem, SemCapacity(maxGoroutines))

\* the dispatcher acquires the slot of the second element while the first
\* element's mapper is still running
C12_Witness ==
    /\ budget = 2
    /\ Len(S) = 2
    /\ pc = "acquire"
    /\ idx = 2
    /\ task[1] = "running"
    /\ sem = 1

\* C13: a worker never blocks: when it is about to deposit its result the
\* channel is open and has room, and when it is about to release its slot
\* the semaphore holds a token; the dispatcher can always take its next
\* step unless it is acquiring a slot or waiting for the outstanding tasks
C13_WorkersNeverBlock ==
    /\ \A j \in Tasks :
          /\ task[j] = "mapped" =>
                (~closed /\ Len(resultChan) < ResultCap(Len(S)))
          /\ task[j] \in {"completed", "panicking"} => sem > 0
          /\ (~crashed /\ task[j] \in {"mapped", "completed", "panicking"}) =>
                ENABLED Worker(j)
    /\ (~crashed /\ pc \in {"start", "loop", "close", "collect"}) =>
          ENABLED Dispatcher

\* the last worker is about to deposit while all other results sit in the
\* channel, the dispatcher blocked in its final wait
C13_Witness ==
    /\ Len(S) = 3
    /\ Len(resultChan) = 2
    /\ \E j \in Tasks : task[j] = "mapped"
    /\ pc = "wait"
    /\ wg > 0

\* worker goroutines that have been spawned and have not yet exited
LiveWorkers == {j \in Tasks : task[j] \notin {"pending", "exited", "faulted"}}

\* C14: with maxGoroutines = k >= 1 at most k worker goroutines of the call
\* exist at any instant (stated for the calls in which no mapper panics)
C14_AtMostKGoroutines ==
    (budget >= 1 /\ MapperTotal) => Cardinality(LiveWorkers) <= budget

\* C15: the order of the results is left to the scheduler: whenever two
\* workers are both about to deposit their result, either of them may
\* deposit first
C15_EitherMayDepositFirst ==
    \A i, j \in Tasks :
        (i # j /\ task[i] = "mapped" /\ task[j] = "mapped" /\ ~crashed) =>
            (ENABLED Send(i) /\ ENABLED Send(j))

\* a call over two different elements with a budget of 2 has returned the
\* results in the reverse of the input order
C15_Witness ==
    /\ pc = "returned"
    /\ Len(S) = 2
    /\ budget = 2
    /\ S[1] # S[2]
    /\ result = <<MapperValue(mapper, S[2]), MapperValue(mapper, S[1])>>

\* a call over two different elements with a budget of 2 has returned the
\* results in the input order
C15_InOrderReached ==
    /\ pc = "returned"
    /\ Len(S) = 2
    /\ budget = 2
    /\ S[1] # S[2]
    /\ result = MappedSeq(mapper, S)

\* the values of the workers that have deposited, in input order
DepositedInOrder ==
    LET F[k \in 0..Len(S)] ==
            IF k = 0 THEN <<>>
            ELSE IF task[k] \in {"completed", "released", "exited"}
                 THEN Append(F[k - 1], MapperValue(mapper, S[k]))
                 ELSE F[k - 1]
    IN F[Len(S)]

\* C29: with a budget of 1 the results are deposited and collected in input
\* order in every interleaving, so the returned Stream holds f(S[i]) at
\* every index i
C29_BudgetOneKeepsOrder ==
    budget = 1 =>
        /\ result \o resultChan = DepositedInOrder
        /\ (pc = "returned" /\ MapperTotal) => result = MappedSeq(mapper, S)

\* a call with a budget of 1 over three elements has returned
C29_Witness ==
    /\ budget = 1
    /\ pc = "returned"
    /\ S = <<1, 2, 1>>
    /\ result = <<2, 4, 2>>

\* C30: once the result channel is closed no worker is sending or still
\* going to send on it, and the channel never buffers more than len(S)
\* results
C30_ClosedAfterAllSends ==
    /\ closed => \A j \in Tasks :
                    task[j] \notin {"pending", "scheduled", "running", "mapped"}
    /\ Len(resultChan) <= Len(S)

\* the channel has just been closed with every result of three workers in
\* its buffer
C30_Witness ==
    /\ closed
    /\ Len(S) = 3
    /\ Len(resultChan) = 3
    /\ result = <<>>

(* ================== properties of the sequential stages ================ *)
\* C7: after Filter, Map, FlatMap, Sort, Distinct or Limit the receiver's
\* element sequence is what it was when the stage was called
C7_ReceiverUntouched ==
    phase \in {"applied", "panicked"} => View(heap, recv) = snapRecv

\* Sort has returned a reordering of a receiver that was out of order
C7_Witness ==
    /\ phase = "applied"
    /\ op.name = "Sort"
    /\ snapRes # snapRecv
    /\ View(heap, recv) = snapRecv

\* C8: a write or append through the slice of the returned Container is
\* never observable through the receiver, and one through the receiver's
\* slice never through the returned Container
C8_NoSharedState ==
    phase = "mutated" =>
        /\ who = "res" => View(heap, recv) = snapRecv
        /\ who = "recv" => View(heap, res) = snapRes

\* the stable arrangement: each element inserted after the elements that
\* are not greater than it
RECURSIVE StableInsert(_, _, _)
StableInsert(r, e, l) ==
    IF r = <<>> THEN <<e>>
    ELSE IF Less(l, e, r[Len(r)])
         THEN StableInsert(SubSeq(r, 1, Len(r) - 1), e, l) \o <<r[Len(r)]>>
         ELSE Append(r, e)

RECURSIVE StableSorted(_, _)
StableSorted(s, l) ==
    IF s = <<>> THEN <<>>
    ELSE StableInsert(StableSorted(SubSeq(s, 1, Len(s) - 1), l),
                      s[Len(s)], l)

\* C9: Sort is stable: elements that the comparator ranks as equal keep
\* their input order, so the result is the stable arrangement of the input
C9_SortStable ==
    (phase = "applied" /\ op.name = "Sort") =>
        snapRes = StableSorted(snapRecv, op.fn)

\* C10: Limit with n <= 0 returns an empty Container and never faults
C10_LimitNonPositiveEmpty ==
    (op.name = "Limit" /\ op.n <= 0 /\ phase \in {"applied", "panicked"}) =>
        /\ phase = "applied"
        /\ snapRes = <<>>

\* the stage just applied
Applied(name) == phase = "applied" /\ op.name = name

\* the elements of the returned Stream
Out == View(heap, res)

\* a step that applies stage name to the Stream that stage name returned
Again(name) ==
    /\ phase = "ready"
    /\ op.name = name
    /\ phase' = "applied"
    /\ op'.name = name

\* C16: Filter(S, P) is the subsequence of S of exactly the elements that
\* satisfy P, in their order and with their multiplicity
C16_FilterSelects ==
    Applied("Filter") =>
        /\ Out = SelectSeq(snapRecv, LAMBDA e : Pred(op.fn, e))
        /\ \A k \in 1..Len(Out) : Pred(op.fn, Out[k])
        /\ snapRecv = <<>> => Out = <<>>

\* Filter has dropped the middle element and kept both copies of another
C16_Witness ==
    /\ Applied("Filter")
    /\ snapRecv = <<2, 1, 2>>
    /\ Out = <<2, 2>>

\* the composition of the mappers of two consecutive Map stages
Composed(g, f, s) == [k \in 1..Len(s) |-> MapFn(g, MapFn(f, s[k]))]

\* C17: Map(S, f) has the length of S and f(S[i]) at every index i, and
\* Map(Map(S, f), g) is Map(S, g after f)
C17_MapPointwise ==
    /\ [](Applied("Map") =>
            /\ Len(Out) = Len(snapRecv)
            /\ \A k \in 1..Len(Out) : Out[k] = MapFn(op.fn, snapRecv[k]))
    /\ [][Again("Map") =>
            View(heap', res') = Composed(op'.fn, op.fn, snapRecv)]_vars

\* Map with the doubling mapper has been applied twice to <<1, 2, 3>>
C17_Witness ==
    /\ Applied("Map")
    /\ depth = 2
    /\ Out = <<4, 8, 12>>

\* C18: Sort(S, less) holds the elements of S with their multiplicity, and
\* none of them is followed by one that is less than it
C18_SortedPermutation ==
    Applied("Sort") =>
        /\ SeqToBag(Out) = SeqToBag(snapRecv)
        /\ \A a, b \in 1..Len(Out) : a < b => ~Less(op.fn, Out[b], Out[a])

\* Sort by halves has moved the smallest of three elements to the front
C18_Witness ==
    /\ Applied("Sort")
    /\ op.fn = "byHalf"
    /\ snapRecv = <<3, 2, 1>>
    /\ Out[1] = 1

\* C19: Sort(Sort(S, less), less) equals Sort(S, less) element for element
C19_SortIdempotent ==
    [][(Again("Sort") /\ op'.fn = op.fn) =>
            View(heap', res') = View(heap, recv)]_vars

\* the elements of s whose rendering occurs at no earlier index
FirstOccurrences(s) ==
    LET keep == {k \in 1..Len(s) :
                    \A m \in 1..(k - 1) : Render(s[m]) # Render(s[k])}
        F[k \in 0..Len(s)] ==
            IF k = 0 THEN <<>>
            ELSE IF k \in keep THEN Append(F[k - 1], s[k]) ELSE F[k - 1]
    IN F[Len(s)]

\* C20: Distinct(S) keeps exactly the first occurrence of each rendering, in
\* order: no two results render alike, every rendering of S occurs, the
\* result is no longer than S, and Distinct of the result is the result
C20_DistinctFirstOccurrences ==
    Applied("Distinct") =>
        /\ Out = FirstOccurrences(snapRecv)
        /\ \A a, b \in 1..Len(Out) : a # b => Render(Out[a]) # Render(Out[b])
        /\ {Render(snapRecv[k]) : k \in 1..Len(snapRecv)}
              = {Render(Out[k]) : k \in 1..Len(Out)}
        /\ Len(Out) <= Len(snapRecv)
        /\ LET again == DistinctFrom(Out, 1, {}, NilBuf)
           IN SubSeq(again.a, 1, again.n) = Out

\* Distinct has dropped the second copy of an element and kept the order
C20_Witness ==
    /\ Applied("Distinct")
    /\ snapRecv = <<2, 1, 2>>
    /\ Out = <<2, 1>>

\* C21: for n >= 0, Limit(S, n) holds exactly the first min(n, len(S))
\* elements of S in their order: nothing for n = 0, all of S for n >= len(S)
C21_LimitTakesPrefix ==
    (Applied("Limit") /\ op.n >= 0) =>
        /\ Out = SubSeq(snapRecv, 1,
                        IF op.n < Len(snapRecv) THEN op.n ELSE Len(snapRecv))
        /\ op.n = 0 => Out = <<>>
        /\ op.n >= Len(snapRecv) => Out = snapRecv

\* Limit has cut a Stream of three elements down to its first two
C21_Witness ==
    /\ Applied("Limit")
    /\ op.n = 2
    /\ snapRecv = <<3, 1, 2>>
    /\ Out = <<3, 1>>

(* ================ properties of the terminal operations ================ *)
\* the left fold of the first k elements of s
LeftFold(s, f, initialValue) ==
    LET F[k \in 0..Len(s)] ==
            IF k = 0 THEN initialValue ELSE Reducer(f, F[k - 1], s[k])
    IN F

\* C22: Reduce returns the left fold of the elements in traversal order,
\* calling combine exactly once per element, the k-th call on the fold of the
\* first k-1 elements and the k-th element; on an empty Stream it returns
\* the initial value without calling combine
C22_ReduceIsLeftFold ==
    call.name = "Reduce" =>
        LET F == LeftFold(elements, call.fn, call.arg)
        IN /\ ret.value = F[Len(elements)]
           /\ Len(ret.log) = Len(elements)
           /\ \A k \in 1..Len(elements) : ret.log[k] = <<F[k - 1], elements[k]>>
           /\ elements = <<>> => (ret.value = call.arg /\ ret.log = <<>>)

\* Reduce by subtraction from 10 over <<3, 1, 2>> has returned ((10-3)-1)-2
C22_Witness ==
    /\ call.name = "Reduce"
    /\ call.fn = "sub"
    /\ call.arg = 10
    /\ elements = <<3, 1, 2>>
    /\ ret.value = 4

\* C23: FindFirst and FindAny return the same result and never fail: a
\* present Optional holding the first element of a non-empty Stream, an
\* empty Optional for an empty Stream
C23_FindReturnsFirst ==
    /\ FindAny(elements) = FindFirst(elements)
    /\ ENABLED CallFindAny
    /\ ENABLED CallFindFirst
    /\ call.name \in {"FindAny", "FindFirst"} =>
          /\ IsPresent(ret) <=> elements # <<>>
          /\ elements # <<>> => Get(ret, Zero) = <<elements[1], NilError>>
          /\ elements = <<>> => Get(ret, Zero) = <<Zero, ErrNoValuePresent>>

\* FindAny on a Stream whose first and last elements differ has returned
\* the first
C23_Witness ==
    /\ call.name = "FindAny"
    /\ elements = <<2, 3, 1>>
    /\ GetIfPresent(ret, Zero) = <<2, TRUE>>

\* the renderings of the first k elements with sep between consecutive ones
Joined(s, sep) ==
    LET F[k \in 0..Len(s)] ==
            IF k = 0 THEN <<>>
            ELSE IF k = 1 THEN Render(s[1])
            ELSE F[k - 1] \o sep \o Render(s[k])
    IN F[Len(s)]

\* the total length of the renderings of the elements of s
RECURSIVE RenderedLen(_)
RenderedLen(s) ==
    IF s = <<>> THEN 0 ELSE Len(Render(Head(s))) + RenderedLen(Tail(s))

\* C24: Join is the renderings of the elements in order with sep between
\* each consecutive pair and nowhere else: max(len(S)-1, 0) separators, the
\* empty string for an empty Stream, the lone rendering for one element
C24_JoinInterleaves ==
    call.name = "Join" =>
        /\ ret = Joined(elements, call.arg)
        /\ Len(ret) = RenderedLen(elements)
                      + (IF Len(elements) > 0 THEN Len(elements) - 1 ELSE 0)
                        * Len(call.arg)
        /\ elements = <<>> => ret = <<>>
        /\ Len(elements) = 1 => ret = Render(elements[1])

\* Join with ", " over three elements
C24_Witness ==
    /\ call.name = "Join"
    /\ call.arg = <<Comma, Space>>
    /\ elements = <<3, 1, 2>>
    /\ ret = <<3, Comma, Space, 1, Comma, Space, 2>>

\* the grouping operations
Groupings ==
    {"Stream.GroupBy", "GroupByAndTransform", "GroupByString",
     "GroupByStringToString", "GroupBy", "GroupByWithValueMapper"}

\* the sum of the sizes of the groups of m
RECURSIVE GroupSizes(_, _)
GroupSizes(m, ks) ==
    IF ks = {} THEN 0
    ELSE LET k == CHOOSE x \in ks : TRUE
         IN Len(m[k]) + GroupSizes(m, ks \ {k})

\* the elements of s whose key is k, in their order
WithKey(s, kf, k) == SelectSeq(s, LAMBDA e : KeyFn(kf, e) = k)

\* C25: every grouping operation partitions the input: the keys are exactly
\* the keys keyFn produces over S, the group of key k is the elements with
\* key k (or their valueFn images) once each in traversal order, no group is
\* empty and the group sizes sum to len(S)
C25_GroupingPartitions ==
    call.name \in Groupings =>
        /\ DOMAIN ret = {KeyFn(call.fn, elements[k]) : k \in 1..Len(elements)}
        /\ \A k \in DOMAIN ret :
              /\ ret[k] = [j \in 1..Len(WithKey(elements, call.fn, k)) |->
                              ValueFn(call.arg, WithKey(elements, call.fn, k)[j])]
              /\ ret[k] # <<>>
        /\ GroupSizes(ret, DOMAIN ret) = Len(elements)

\* grouping by parity has put the two odd elements, doubled, into one group
\* in their input order
C25_Witness ==
    /\ call.name = "GroupByWithValueMapper"
    /\ call.fn = "parity"
    /\ call.arg = "double"
    /\ elements = <<3, 2, 1>>
    /\ ret["odd"] = <<6, 2>>
    /\ ret["even"] = <<4>>

(* ======================= properties of Optional ======================== *)
\* the Optional was built by Of, or by OfNullable with isZero(value) false
BuiltPresent ==
    \/ built.name = "Of"
    \/ built.name = "OfNullable" /\ ~IsZeroFn(built.z, built.v)

Bearing(name) ==
    {k \in 1..Len(Values(sets, Receiver)) :
        Values(sets, Receiver)[k].Name = name}

\* C27: after any Adds and SortByOrders, FindByName returns a present
\* Optional holding the first enum of that name in the set's current order,
\* an empty Optional iff no enum of the set bears the name, and leaves the
\* set as it was
C27_FindByNameFirstMatch ==
    ecall.name = "FindByName" =>
        /\ IsPresent(eret) <=> Bearing(ecall.arg) # {}
        /\ \A k \in Bearing(ecall.arg) :
              (\A m \in Bearing(ecall.arg) : k <= m) =>
                  GetIfPresent(eret, ZeroEnum)
                      = <<Values(sets, Receiver)[k], TRUE>>
        /\ Values(sets, Receiver) = before
        /\ Len(sets) = 1

\* two enums named SECOND were added and the set sorted in descending order
\* of value; FindByName has returned the one that now comes first
C27_Witness ==
    /\ ecall.name = "FindByName"
    /\ ecall.arg = "SECOND"
    /\ Values(sets, Receiver) =
          <<[Name |-> "SECOND", Value |-> 2], [Name |-> "FIRST", Value |-> 1],
            [Name |-> "SECOND", Value |-> 1]>>
    /\ Get(eret, ZeroEnum) = <<[Name |-> "SECOND", Value |-> 2], NilError>>

\* the enums of vs whose order under g is o, in their order
OfOrder(vs, g, o) == SelectSeq(vs, LAMBDA e : GetOrder(g, e.Value) = o)

\* C28: SortByOrder reorders the receiver in place and returns the receiver:
\* its values are a permutation of the previous ones in non-decreasing
\* getOrder order, enums of equal order keeping their relative order
C28_SortByOrderStableInPlace ==
    ecall.name = "SortByOrder" =>
        LET vs == Values(sets, eret.ref)
        IN /\ eret.ref = Receiver
           /\ Len(sets) = 1
           /\ SeqToBag(vs) = SeqToBag(before)
           /\ \A a, b \in 1..Len(vs) :
                 a < b => GetOrder(ecall.arg, vs[a].Value)
                            <= GetOrder(ecall.arg, vs[b].Value)
           /\ \A e \in Enums :
                 OfOrder(vs, ecall.arg, GetOrder(ecall.arg, e.Value))
                   = OfOrder(before, ecall.arg, GetOrder(ecall.arg, e.Value))

\* sorting by value has moved the enum of value 1 to the front and left the
\* two different enums of value 2 in their previous order
C28_Witness ==
    /\ ecall.name = "SortByOrder"
    /\ ecall.arg = "byValue"
    /\ before =
          <<[Name |-> "SECOND", Value |-> 2], [Name |-> "FIRST", Value |-> 2],
            [Name |-> "FIRST", Value |-> 1]>>
    /\ Values(sets, Receiver) =
          <<[Name |-> "FIRST", Value |-> 1], [Name |-> "SECOND", Value |-> 2],
            [Name |-> "FIRST", Value |-> 2]>>

====
